---- MODULE Spec2Model ----
(***************************************************************************)
(* Model of src/sqlast/mod.rs: the SQL abstract syntax tree, its canonical *)
(* renderer (the ToString implementations) and the two enumeration parsers *)
(* (the FromStr implementations).                                          *)
(*                                                                         *)
(* Text is a TLA+ string, so rendered output is compared byte for byte.   *)
(* Option<T> is a sequence of length at most one: <<>> is None and <<x>>   *)
(* is Some(x).  A Vec<T> is a sequence.  A tree node is a record whose     *)
(* field `type` names the enum variant or struct.                         *)
(*                                                                         *)
(* input, out and pc describe one caller applying one operation.  trees    *)
(* and calls describe several threads that share a vector of trees by      *)
(* reference and render them concurrently (SpecConcurrent).                *)
(***************************************************************************)
EXTENDS Integers, Sequences, FiniteSets, TLC

VARIABLES input, out, pc, trees, calls

vars == <<input, out, pc, trees, calls>>

(***************************************************************************)
(* Bounds of the model.                                                    *)
(***************************************************************************)
MaxList == 2
MaxValues == 4
MaxStmts == 2

(***************************************************************************)
(* Text helpers used by the properties.                                    *)
(***************************************************************************)
NL == "\n"
TAB == "\t"

Contains(s, sub) ==
    \E i \in 1..(Len(s) - Len(sub) + 1) : SubSeq(s, i, i + Len(sub) - 1) = sub

StartsWith(s, p) == Len(p) <= Len(s) /\ SubSeq(s, 1, Len(p)) = p

EndsWith(s, p) == Len(p) <= Len(s) /\ SubSeq(s, Len(s) - Len(p) + 1, Len(s)) = p

\* `full` is `base` with `clause` inserted at one position, nothing else changed.
InsertedInto(full, base, clause) ==
    \E i \in 0..Len(base) :
        full = SubSeq(base, 1, i) \o clause \o SubSeq(base, i + 1, Len(base))

None == <<>>
Some(x) == <<x>>
IsSome(o) == Len(o) = 1
Option(S) == {None} \cup {Some(x) : x \in S}

RECURSIVE SeqsUpTo(_, _)
SeqsUpTo(S, n) ==
    IF n = 0 THEN {<<>>}
    ELSE LET shorter == SeqsUpTo(S, n - 1)
         IN shorter \cup {Append(q, x) : q \in {r \in shorter : Len(r) = n - 1}, x \in S}

(***************************************************************************)
(* Vec<String>::join(sep), as used throughout the renderer.                *)
(***************************************************************************)
RECURSIVE join(_, _)
join(v, sep) ==
    IF Len(v) = 0 THEN ""
    ELSE IF Len(v) = 1 THEN v[1]
    ELSE v[1] \o sep \o join(Tail(v), sep)

\* A join that also puts the separator after the last item.
comma_separated_string_Trailing(strings) ==
    IF Len(strings) = 0 THEN ""
    ELSE join(strings, ", ") \o ", "

\* The argument is the vector the map step has collected: the to_string of
\* every item, in order (the per-type ...Strings operators below).
comma_separated_string(strings) == join(strings, ", ")

(***************************************************************************)
(* Types whose ToString lives in the sibling modules query, value,         *)
(* sqltype, sql_operator and ddl: a value of such a type carries the text  *)
(* its own renderer produces.                                              *)
(***************************************************************************)
Extern(t) == [type |-> "Extern", text |-> t]
ExternToString(x) == x.text

SQLIdentToString(s) == s

\* iter.map(|t| t.deref().to_string()).collect::<Vec<String>>(), per item type
ExternStrings(iter) == [i \in 1..Len(iter) |-> ExternToString(iter[i])]

SQLIdentStrings(iter) == [i \in 1..Len(iter) |-> SQLIdentToString(iter[i])]

SQLObjectNameToString(name) == join(name, ".")

SQLObjectNameStrings(iter) == [i \in 1..Len(iter) |-> SQLObjectNameToString(iter[i])]

(***************************************************************************)
(* Small enumerations.                                                     *)
(***************************************************************************)
SQLWindowFrameUnits == {"Rows", "Range", "Groups"}

SQLWindowFrameUnitsToString(u) ==
    CASE u = "Rows" -> "ROWS"
      [] u = "Range" -> "RANGE"
      [] u = "Groups" -> "GROUPS"

FileFormat == {"TEXTFILE", "SEQUENCEFILE", "ORC", "PARQUET", "AVRO", "RCFILE", "JSONFILE"}

FileFormatToString(f) ==
    CASE f = "TEXTFILE" -> "TEXTFILE"
      [] f = "SEQUENCEFILE" -> "SEQUENCEFILE"
      [] f = "ORC" -> "ORC"
      [] f = "PARQUET" -> "PARQUET"
      [] f = "AVRO" -> "AVRO"
      [] f = "RCFILE" -> "RCFILE"
      [] f = "JSONFILE" -> "TEXTFILE"

SQLDateTimeFieldToString(f) ==
    CASE f = "Year" -> "YEAR"
      [] f = "Month" -> "MONTH"
      [] f = "Day" -> "DAY"
      [] f = "Hour" -> "HOUR"
      [] f = "Minute" -> "MINUTE"
      [] f = "Second" -> "SECOND"

SQLObjectTypeToString(t) ==
    CASE t = "Table" -> "TABLE"
      [] t = "View" -> "VIEW"

\* Result<Enum, ParserError>
Ok(v) == [kind |-> "ok", value |-> v, text |-> ""]
Err(msg) == [kind |-> "err", value |-> "", text |-> msg]

\* A parser that also accepts the lower-case spelling of one keyword.
SQLWindowFrameUnitsFromStr_AnyCase(s) ==
    CASE s = "ROWS" \/ s = "rows" -> Ok("Rows")
      [] s = "RANGE" -> Ok("Range")
      [] s = "GROUPS" -> Ok("Groups")
      [] OTHER -> Err("Expected ROWS, RANGE, or GROUPS, found: " \o s)

SQLWindowFrameUnitsFromStr(s) ==
    CASE s = "ROWS" -> Ok("Rows")
      [] s = "RANGE" -> Ok("Range")
      [] s = "GROUPS" -> Ok("Groups")
      [] OTHER -> Err("Expected ROWS, RANGE, or GROUPS, found: " \o s)

FileFormatFromStr(s) ==
    CASE s = "TEXTFILE" -> Ok("TEXTFILE")
      [] s = "SEQUENCEFILE" -> Ok("SEQUENCEFILE")
      [] s = "ORC" -> Ok("ORC")
      [] s = "PARQUET" -> Ok("PARQUET")
      [] s = "AVRO" -> Ok("AVRO")
      [] s = "RCFILE" -> Ok("RCFILE")
      [] s = "JSONFILE" -> Ok("JSONFILE")
      [] OTHER -> Err("Unexpected file format: " \o s)

SQLWindowFrameBoundToString(b) ==
    CASE b.type = "CurrentRow" -> "CURRENT ROW"
      [] b.type = "Preceding" /\ b.n = None -> "UNBOUNDED PRECEDING"
      [] b.type = "Following" /\ b.n = None -> "UNBOUNDED FOLLOWING"
      [] b.type = "Preceding" /\ IsSome(b.n) -> ToString(b.n[1]) \o " PRECEDING"
      [] b.type = "Following" /\ IsSome(b.n) -> ToString(b.n[1]) \o " FOLLOWING"

(***************************************************************************)
(* impl ToString for ASTNode, SQLFunction and SQLWindowSpec (mutually      *)
(* recursive through function arguments and partition-by lists).           *)
(***************************************************************************)
RECURSIVE ASTNodeToString(_), SQLFunctionToString(_), SQLWindowSpecToString(_)

ASTNodeStrings(iter) == [i \in 1..Len(iter) |-> ASTNodeToString(iter[i])]

\* A CASE renderer that emits the ELSE branch before the WHEN branches.
SQLCaseToString_ElseFirst(node) ==
    LET n == IF Len(node.conditions) <= Len(node.results)
             THEN Len(node.conditions) ELSE Len(node.results)
        pairs == [i \in 1..n |->
                    " WHEN " \o ASTNodeToString(node.conditions[i])
                    \o " THEN " \o ASTNodeToString(node.results[i])]
        s0 == "CASE"
        s1 == IF IsSome(node.operand)
              THEN s0 \o " " \o ASTNodeToString(node.operand[1]) ELSE s0
        s2 == IF IsSome(node.else_result)
              THEN s1 \o " ELSE " \o ASTNodeToString(node.else_result[1]) ELSE s1
        s3 == s2 \o join(pairs, "")
    IN s3 \o " END"

SQLCaseToString(node) ==
    LET n == IF Len(node.conditions) <= Len(node.results)
             THEN Len(node.conditions) ELSE Len(node.results)   \* Iterator::zip
        pairs == [i \in 1..n |->
                    " WHEN " \o ASTNodeToString(node.conditions[i])
                    \o " THEN " \o ASTNodeToString(node.results[i])]
        s0 == "CASE"
        s1 == IF IsSome(node.operand)
              THEN s0 \o " " \o ASTNodeToString(node.operand[1]) ELSE s0
        s2 == s1 \o join(pairs, "")
        s3 == IF IsSome(node.else_result)
              THEN s2 \o " ELSE " \o ASTNodeToString(node.else_result[1]) ELSE s2
    IN s3 \o " END"

ASTNodeToString(node) ==
    CASE node.type = "SQLIdentifier" -> SQLIdentToString(node.s)
      [] node.type = "SQLWildcard" -> "*"
      [] node.type = "SQLQualifiedWildcard" -> join(node.q, ".") \o ".*"
      [] node.type = "SQLCompoundIdentifier" -> join(node.idents, ".")
      [] node.type = "SQLIsNull" -> ASTNodeToString(node.ast) \o " IS NULL"
      [] node.type = "SQLIsNotNull" -> ASTNodeToString(node.ast) \o " IS NOT NULL"
      [] node.type = "SQLInList" ->
            ASTNodeToString(node.expr) \o " "
            \o (IF node.negated THEN "NOT " ELSE "")
            \o "IN (" \o comma_separated_string(ASTNodeStrings(node.list)) \o ")"
      [] node.type = "SQLInSubquery" ->
            ASTNodeToString(node.expr) \o " "
            \o (IF node.negated THEN "NOT " ELSE "")
            \o "IN (" \o ExternToString(node.subquery) \o ")"
      [] node.type = "SQLBetween" ->
            ASTNodeToString(node.expr) \o " "
            \o (IF node.negated THEN "NOT " ELSE "")
            \o "BETWEEN " \o ASTNodeToString(node.low)
            \o " AND " \o ASTNodeToString(node.high)
      [] node.type = "SQLBinaryExpr" ->
            ASTNodeToString(node.left) \o " " \o ExternToString(node.op)
            \o " " \o ASTNodeToString(node.right)
      [] node.type = "SQLCast" ->
            "CAST(" \o ASTNodeToString(node.expr) \o " AS "
            \o ExternToString(node.data_type) \o ")"
      [] node.type = "SQLExtract" ->
            "EXTRACT(" \o SQLDateTimeFieldToString(node.field) \o " FROM "
            \o ASTNodeToString(node.expr) \o ")"
      [] node.type = "SQLCollate" ->
            ASTNodeToString(node.expr) \o " COLLATE "
            \o SQLObjectNameToString(node.collation)
      [] node.type = "SQLNested" -> "(" \o ASTNodeToString(node.ast) \o ")"
      [] node.type = "SQLUnary" ->
            ExternToString(node.operator) \o " " \o ASTNodeToString(node.expr)
      [] node.type = "SQLValue" -> ExternToString(node.v)
      [] node.type = "SQLFunction" -> SQLFunctionToString(node.f)
      [] node.type = "SQLCase" -> SQLCaseToString(node)
      [] node.type = "SQLExists" -> "EXISTS (" \o ExternToString(node.query) \o ")"
      [] node.type = "SQLSubquery" -> "(" \o ExternToString(node.query) \o ")"

\* A window-spec renderer that writes every frame in the BETWEEN form, closing
\* a frame that has no end bound with CURRENT ROW.
SQLWindowSpecToString_AlwaysBetween(spec) ==
    LET c1 == IF Len(spec.partition_by) # 0
              THEN << "PARTITION BY "
                      \o comma_separated_string(ASTNodeStrings(spec.partition_by)) >>
              ELSE <<>>
        c2 == IF Len(spec.order_by) # 0
              THEN << "ORDER BY "
                      \o comma_separated_string(ExternStrings(spec.order_by)) >>
              ELSE <<>>
        c3 == IF IsSome(spec.window_frame)
              THEN LET window_frame == spec.window_frame[1]
                   IN << SQLWindowFrameUnitsToString(window_frame.units)
                         \o " BETWEEN "
                         \o SQLWindowFrameBoundToString(window_frame.start_bound)
                         \o " AND "
                         \o (IF IsSome(window_frame.end_bound)
                             THEN SQLWindowFrameBoundToString(window_frame.end_bound[1])
                             ELSE "CURRENT ROW") >>
              ELSE <<>>
    IN join(c1 \o c2 \o c3, " ")

SQLWindowSpecToString(spec) ==
    LET c1 == IF Len(spec.partition_by) # 0
              THEN << "PARTITION BY "
                      \o comma_separated_string(ASTNodeStrings(spec.partition_by)) >>
              ELSE <<>>
        c2 == IF Len(spec.order_by) # 0
              THEN << "ORDER BY "
                      \o comma_separated_string(ExternStrings(spec.order_by)) >>
              ELSE <<>>
        c3 == IF IsSome(spec.window_frame)
              THEN LET window_frame == spec.window_frame[1]
                   IN IF IsSome(window_frame.end_bound)
                      THEN << SQLWindowFrameUnitsToString(window_frame.units)
                              \o " BETWEEN "
                              \o SQLWindowFrameBoundToString(window_frame.start_bound)
                              \o " AND "
                              \o SQLWindowFrameBoundToString(window_frame.end_bound[1]) >>
                      ELSE << SQLWindowFrameUnitsToString(window_frame.units)
                              \o " "
                              \o SQLWindowFrameBoundToString(window_frame.start_bound) >>
              ELSE <<>>
    IN join(c1 \o c2 \o c3, " ")

SQLFunctionToString(f) ==
    LET s == SQLObjectNameToString(f.name) \o "("
             \o (IF f.distinct THEN "DISTINCT " ELSE "")
             \o comma_separated_string(ASTNodeStrings(f.args)) \o ")"
    IN IF IsSome(f.over)
       THEN s \o " OVER (" \o SQLWindowSpecToString(f.over[1]) \o ")"
       ELSE s

SQLAssignmentToString(a) == a.id \o " = " \o ASTNodeToString(a.value)

SQLAssignmentStrings(iter) == [i \in 1..Len(iter) |-> SQLAssignmentToString(iter[i])]

SQLOptionToString(o) == SQLIdentToString(o.name) \o " = " \o ExternToString(o.value)

SQLOptionStrings(iter) == [i \in 1..Len(iter) |-> SQLOptionToString(iter[i])]

SQLColumnDefToString(c) ==
    LET s0 == c.name \o " " \o ExternToString(c.data_type)
        s1 == IF c.is_primary THEN s0 \o " PRIMARY KEY" ELSE s0
        s2 == IF c.is_unique THEN s1 \o " UNIQUE" ELSE s1
        s3 == IF IsSome(c.default)
              THEN s2 \o " DEFAULT " \o ASTNodeToString(c.default[1]) ELSE s2
    IN IF ~c.allow_null THEN s3 \o " NOT NULL" ELSE s3

SQLColumnDefStrings(iter) == [i \in 1..Len(iter) |-> SQLColumnDefToString(iter[i])]

(***************************************************************************)
(* impl ToString for SQLStatement.  The call either returns a String or    *)
(* unwinds with a panic (Option::unwrap on None).                          *)
(***************************************************************************)
Rendered(t) == [kind |-> "text", value |-> "", text |-> t]
Panicked == [kind |-> "panic", value |-> "", text |-> ""]

SQLInsertToString(stmt) ==
    LET s0 == "INSERT INTO " \o SQLObjectNameToString(stmt.table_name) \o " "
        s1 == IF Len(stmt.columns) # 0
              THEN s0 \o "(" \o join(stmt.columns, ", ") \o ") " ELSE s0
    IN s1 \o ExternToString(stmt.source)

\* A value renderer that writes an absent value as the empty text.
CopyValueToString_NullAsEmpty(v) == IF IsSome(v) THEN v[1] ELSE ""

\* v.clone().unwrap_or_else(|| "\\N".to_string())
CopyValueToString(v) == IF IsSome(v) THEN v[1] ELSE "\\N"

\* values.iter().map(..).collect::<Vec<String>>()
CopyValueStrings(values) == [i \in 1..Len(values) |-> CopyValueToString(values[i])]

SQLCopyToString(stmt) ==
    LET s0 == "COPY " \o SQLObjectNameToString(stmt.table_name)
        s1 == IF Len(stmt.columns) # 0
              THEN s0 \o " (" \o comma_separated_string(SQLIdentStrings(stmt.columns))
                      \o ")"
              ELSE s0
        s2 == s1 \o " FROM stdin; "
        s3 == IF Len(stmt.values) # 0
              THEN s2 \o "\n" \o join(CopyValueStrings(stmt.values), "\t")
              ELSE s2
    IN s3 \o "\n\\."

SQLUpdateToString(stmt) ==
    LET s0 == "UPDATE " \o SQLObjectNameToString(stmt.table_name)
        s1 == IF Len(stmt.assignments) # 0
              THEN s0 \o " SET "
                      \o comma_separated_string(SQLAssignmentStrings(stmt.assignments))
              ELSE s0
    IN IF IsSome(stmt.selection)
       THEN s1 \o " WHERE " \o ASTNodeToString(stmt.selection[1]) ELSE s1

SQLDeleteToString(stmt) ==
    LET s0 == "DELETE FROM " \o SQLObjectNameToString(stmt.table_name)
    IN IF IsSome(stmt.selection)
       THEN s0 \o " WHERE " \o ASTNodeToString(stmt.selection[1]) ELSE s0

\* A create-view renderer that puts the column clause before the options.
SQLCreateViewToString_ColumnsFirst(stmt) ==
    LET modifier == IF stmt.materialized THEN " MATERIALIZED" ELSE ""
        with_options ==
            IF Len(stmt.with_options) # 0
            THEN " WITH (" \o comma_separated_string(SQLOptionStrings(stmt.with_options))
                 \o ")"
            ELSE ""
        columns ==
            IF Len(stmt.columns) # 0
            THEN " (" \o comma_separated_string(SQLIdentStrings(stmt.columns)) \o ")"
            ELSE ""
    IN "CREATE" \o modifier \o " VIEW " \o SQLObjectNameToString(stmt.name)
       \o columns \o with_options \o " AS " \o ExternToString(stmt.query)

SQLCreateViewToString(stmt) ==
    LET modifier == IF stmt.materialized THEN " MATERIALIZED" ELSE ""
        with_options ==
            IF Len(stmt.with_options) # 0
            THEN " WITH (" \o comma_separated_string(SQLOptionStrings(stmt.with_options))
                 \o ")"
            ELSE ""
        columns ==
            IF Len(stmt.columns) # 0
            THEN " (" \o comma_separated_string(SQLIdentStrings(stmt.columns)) \o ")"
            ELSE ""
    IN "CREATE" \o modifier \o " VIEW " \o SQLObjectNameToString(stmt.name)
       \o with_options \o columns \o " AS " \o ExternToString(stmt.query)

SQLCreateTableToString(stmt) ==
    LET s0 == "CREATE " \o (IF stmt.external THEN "EXTERNAL " ELSE "") \o "TABLE "
              \o SQLObjectNameToString(stmt.name) \o " ("
              \o comma_separated_string(SQLColumnDefStrings(stmt.columns))
        s1 == IF Len(stmt.constraints) # 0
              THEN s0 \o ", " \o comma_separated_string(ExternStrings(stmt.constraints))
              ELSE s0
        s2 == s1 \o ")"
    IN IF stmt.external /\ (stmt.file_format = None \/ stmt.location = None)
       THEN Panicked      \* file_format.as_ref().unwrap() / location.as_ref().unwrap()
       ELSE LET s3 == IF stmt.external
                      THEN s2 \o " STORED AS " \o FileFormatToString(stmt.file_format[1])
                              \o " LOCATION '" \o stmt.location[1] \o "'"
                      ELSE s2
            IN Rendered(IF Len(stmt.with_options) # 0
                        THEN s3 \o " WITH ("
                                \o comma_separated_string(SQLOptionStrings(stmt.with_options))
                                \o ")"
                        ELSE s3)

SQLAlterTableToString(stmt) ==
    "ALTER TABLE " \o SQLObjectNameToString(stmt.name) \o " "
    \o ExternToString(stmt.operation)

SQLDropToString(stmt) ==
    "DROP " \o SQLObjectTypeToString(stmt.object_type)
    \o (IF stmt.if_exists THEN " IF EXISTS" ELSE "") \o " "
    \o comma_separated_string(SQLObjectNameStrings(stmt.names))
    \o (IF stmt.cascade THEN " CASCADE" ELSE "")

RECURSIVE SQLStatementToString(_)

\* A transaction renderer that leaves out the blank line of an empty body.
SQLTransactionToString_NoBlankLine(stmt) ==
    LET rs == [i \in 1..Len(stmt.stmts) |-> SQLStatementToString(stmt.stmts[i])]
    IN IF \E i \in 1..Len(rs) : rs[i].kind = "panic"
       THEN Panicked
       ELSE IF Len(rs) = 0 THEN Rendered("BEGIN;\nCOMMIT;")
       ELSE Rendered("BEGIN;\n"
                     \o join([i \in 1..Len(rs) |-> rs[i].text], "\n")
                     \o "\nCOMMIT;")

SQLTransactionToString(stmt) ==
    LET rs == [i \in 1..Len(stmt.stmts) |-> SQLStatementToString(stmt.stmts[i])]
    IN IF \E i \in 1..Len(rs) : rs[i].kind = "panic"
       THEN Panicked
       ELSE Rendered("BEGIN;\n"
                     \o join([i \in 1..Len(rs) |-> rs[i].text], "\n")
                     \o "\nCOMMIT;")

SQLStatementToString(stmt) ==
    CASE stmt.type = "SQLQuery" -> Rendered(ExternToString(stmt.query))
      [] stmt.type = "SQLInsert" -> Rendered(SQLInsertToString(stmt))
      [] stmt.type = "SQLCopy" -> Rendered(SQLCopyToString(stmt))
      [] stmt.type = "SQLUpdate" -> Rendered(SQLUpdateToString(stmt))
      [] stmt.type = "SQLDelete" -> Rendered(SQLDeleteToString(stmt))
      [] stmt.type = "SQLCreateView" -> Rendered(SQLCreateViewToString(stmt))
      [] stmt.type = "SQLCreateTable" -> SQLCreateTableToString(stmt)
      [] stmt.type = "SQLAlterTable" -> Rendered(SQLAlterTableToString(stmt))
      [] stmt.type = "SQLDrop" -> Rendered(SQLDropToString(stmt))
      [] stmt.type = "SQLTransaction" -> SQLTransactionToString(stmt)

(***************************************************************************)
(* Constructors of tree nodes (enum variants and structs are public and    *)
(* built by literal: construction performs no validation).                 *)
(***************************************************************************)
SQLIdentifier(s) == [type |-> "SQLIdentifier", s |-> s]
SQLValue(t) == [type |-> "SQLValue", v |-> Extern(t)]
SQLNested(a) == [type |-> "SQLNested", ast |-> a]
SQLBinaryExpr(l, o, r) ==
    [type |-> "SQLBinaryExpr", left |-> l, op |-> Extern(o), right |-> r]
SQLCase(operand, conditions, results, else_result) ==
    [type |-> "SQLCase", operand |-> operand, conditions |-> conditions,
     results |-> results, else_result |-> else_result]
SQLInList(e, l, n) == [type |-> "SQLInList", expr |-> e, list |-> l, negated |-> n]
SQLFunctionNode(name, args, over, distinct) ==
    [type |-> "SQLFunction",
     f |-> [name |-> name, args |-> args, over |-> over, distinct |-> distinct]]
SQLWindowSpec(partition_by, order_by, window_frame) ==
    [type |-> "SQLWindowSpec", partition_by |-> partition_by,
     order_by |-> order_by, window_frame |-> window_frame]
SQLWindowFrame(units, start_bound, end_bound) ==
    [units |-> units, start_bound |-> start_bound, end_bound |-> end_bound]
CurrentRow == [type |-> "CurrentRow", n |-> None]
Preceding(n) == [type |-> "Preceding", n |-> n]
Following(n) == [type |-> "Following", n |-> n]
SQLOption(name, value) == [name |-> name, value |-> Extern(value)]
SQLAssignment(id, value) == [id |-> id, value |-> value]
SQLColumnDef(name, data_type, is_primary, is_unique, default, allow_null) ==
    [name |-> name, data_type |-> Extern(data_type), is_primary |-> is_primary,
     is_unique |-> is_unique, default |-> default, allow_null |-> allow_null]

SQLQuery(t) == [type |-> "SQLQuery", query |-> Extern(t)]
SQLInsert(table_name, columns, source) ==
    [type |-> "SQLInsert", table_name |-> table_name, columns |-> columns,
     source |-> Extern(source)]
SQLCopy(table_name, columns, values) ==
    [type |-> "SQLCopy", table_name |-> table_name, columns |-> columns,
     values |-> values]
SQLUpdate(table_name, assignments, selection) ==
    [type |-> "SQLUpdate", table_name |-> table_name, assignments |-> assignments,
     selection |-> selection]
SQLDelete(table_name, selection) ==
    [type |-> "SQLDelete", table_name |-> table_name, selection |-> selection]
SQLCreateView(name, columns, query, materialized, with_options) ==
    [type |-> "SQLCreateView", name |-> name, columns |-> columns,
     query |-> Extern(query), materialized |-> materialized,
     with_options |-> with_options]
SQLCreateTable(name, columns, constraints, with_options, external, file_format, location) ==
    [type |-> "SQLCreateTable", name |-> name, columns |-> columns,
     constraints |-> constraints, with_options |-> with_options,
     external |-> external, file_format |-> file_format, location |-> location]
SQLAlterTable(name, operation) ==
    [type |-> "SQLAlterTable", name |-> name, operation |-> Extern(operation)]
SQLDrop(object_type, if_exists, names, cascade) ==
    [type |-> "SQLDrop", object_type |-> object_type, if_exists |-> if_exists,
     names |-> names, cascade |-> cascade]
SQLTransaction(stmts) == [type |-> "SQLTransaction", stmts |-> stmts]

ASTNodeTypes ==
    {"SQLIdentifier", "SQLWildcard", "SQLQualifiedWildcard", "SQLCompoundIdentifier",
     "SQLIsNull", "SQLIsNotNull", "SQLInList", "SQLInSubquery", "SQLBetween",
     "SQLBinaryExpr", "SQLCast", "SQLExtract", "SQLCollate", "SQLNested", "SQLUnary",
     "SQLValue", "SQLFunction", "SQLCase", "SQLExists", "SQLSubquery"}

SQLStatementTypes ==
    {"SQLQuery", "SQLInsert", "SQLCopy", "SQLUpdate", "SQLDelete", "SQLCreateView",
     "SQLCreateTable", "SQLAlterTable", "SQLDrop", "SQLTransaction"}

(***************************************************************************)
(* The trees and tokens the operations are applied to.                     *)
(***************************************************************************)
Conds == {SQLIdentifier("c1"), SQLIdentifier("c2")}

SimpleCase == SQLCase(None, <<SQLIdentifier("c1")>>, <<SQLIdentifier("r1")>>, None)

Results == {SQLIdentifier("r1"), SQLIdentifier("r2"), SimpleCase}

CaseNodes ==
    {SQLCase(operand, conditions, results, else_result) :
        operand \in Option({SQLIdentifier("o")}),
        conditions \in SeqsUpTo(Conds, MaxList),
        results \in SeqsUpTo(Results, MaxList),
        else_result \in Option({SQLIdentifier("e")})}

Items == {SQLIdentifier("a"), SQLValue("1")}

OrderBys == {Extern("x"), Extern("y DESC")}

WindowFrames ==
    {SQLWindowFrame(units, start_bound, end_bound) :
        units \in SQLWindowFrameUnits,
        start_bound \in {CurrentRow, Preceding(None), Preceding(Some(5))},
        end_bound \in Option({CurrentRow, Following(None), Following(Some(1))})}

WindowSpecs ==
    {SQLWindowSpec(partition_by, order_by, window_frame) :
        partition_by \in SeqsUpTo(Items, MaxList),
        order_by \in SeqsUpTo(OrderBys, MaxList),
        window_frame \in Option(WindowFrames)}

OtherNodes ==
    {[type |-> "SQLWildcard"],
     [type |-> "SQLQualifiedWildcard", q |-> <<"s", "t">>],
     [type |-> "SQLCompoundIdentifier", idents |-> <<"t", "a">>],
     [type |-> "SQLIsNull", ast |-> SQLIdentifier("a")],
     [type |-> "SQLIsNotNull", ast |-> SQLIdentifier("a")],
     [type |-> "SQLInSubquery", expr |-> SQLIdentifier("a"),
      subquery |-> Extern("SELECT 1"), negated |-> TRUE],
     [type |-> "SQLBetween", expr |-> SQLIdentifier("x"), negated |-> TRUE,
      low |-> SQLValue("1"), high |-> SQLValue("10")],
     SQLBinaryExpr(SQLIdentifier("a"), "+", SQLNested(SQLValue("1"))),
     [type |-> "SQLCast", expr |-> SQLIdentifier("a"), data_type |-> Extern("int")],
     [type |-> "SQLExtract", field |-> "Year", expr |-> SQLIdentifier("a")],
     [type |-> "SQLCollate", expr |-> SQLIdentifier("a"), collation |-> <<"de_DE">>],
     [type |-> "SQLUnary", operator |-> Extern("-"), expr |-> SQLIdentifier("a")],
     [type |-> "SQLExists", query |-> Extern("SELECT 1")],
     [type |-> "SQLSubquery", query |-> Extern("SELECT 1")]}
    \cup {SQLInList(SQLIdentifier("x"), list, negated) :
            list \in SeqsUpTo(Items, MaxList), negated \in BOOLEAN}
    \cup {SQLFunctionNode(<<"f">>, args, over, distinct) :
            args \in SeqsUpTo(Items, MaxList),
            over \in Option({SQLWindowSpec(<<>>, <<>>, None),
                             SQLWindowSpec(<<SQLIdentifier("a")>>, <<Extern("x")>>, None)}),
            distinct \in BOOLEAN}

ASTNodes == CaseNodes \cup OtherNodes

Idents == {"a", "b"}

Options == {SQLOption("k", "'v'"), SQLOption("n", "1")}

ColumnDefs ==
    {SQLColumnDef("a", "int", FALSE, FALSE, None, TRUE),
     SQLColumnDef("b", "text", TRUE, TRUE, Some(SQLValue("'x'")), FALSE)}

Constraints == {Extern("PRIMARY KEY (a)"), Extern("UNIQUE (b)")}

CopyValues == Option({"1", "2", "3"})

CopyStmts ==
    {SQLCopy(<<"t">>, columns, values) :
        columns \in {<<>>, <<"a">>, <<"a", "b">>},
        values \in SeqsUpTo(CopyValues, MaxValues)}

CreateViewStmts ==
    {SQLCreateView(<<"v">>, columns, "SELECT 1", materialized, with_options) :
        columns \in SeqsUpTo(Idents, MaxList),
        materialized \in BOOLEAN,
        with_options \in SeqsUpTo(Options, MaxList)}

CreateTableStmts ==
    {SQLCreateTable(<<"t">>, columns, constraints, with_options, external,
                    file_format, location) :
        columns \in SeqsUpTo(ColumnDefs, MaxList),
        constraints \in SeqsUpTo(Constraints, MaxList),
        with_options \in SeqsUpTo({SQLOption("k", "'v'")}, MaxList),
        external \in BOOLEAN,
        file_format \in Option({"PARQUET", "JSONFILE"}),
        location \in Option({"/data"})}

Assignments ==
    {SQLAssignment("a", SQLValue("1")), SQLAssignment("b", SQLIdentifier("c"))}

Selections == Option({SQLBinaryExpr(SQLIdentifier("b"), "=", SQLValue("2"))})

OtherStmts ==
    {SQLQuery("SELECT 1"), SQLAlterTable(<<"t">>, "ADD CONSTRAINT k UNIQUE (a)")}
    \cup {SQLInsert(<<"t">>, columns, "SELECT 1") : columns \in SeqsUpTo(Idents, MaxList)}
    \cup {SQLUpdate(<<"t">>, assignments, selection) :
            assignments \in SeqsUpTo(Assignments, MaxList), selection \in Selections}
    \cup {SQLDelete(<<"s", "t">>, selection) : selection \in Selections}
    \cup {SQLDrop(object_type, if_exists, names, cascade) :
            object_type \in {"Table", "View"}, if_exists \in BOOLEAN,
            names \in SeqsUpTo({<<"t1">>, <<"s", "t2">>}, MaxList),
            cascade \in BOOLEAN}

TransactionChildren ==
    {SQLQuery("STMT1"), SQLQuery("STMT2"),
     SQLDelete(<<"t">>, None),
     SQLCopy(<<"t">>, <<>>, <<Some("1"), None>>),
     SQLTransaction(<<>>),
     SQLTransaction(<<SQLQuery("STMT1"), SQLTransaction(<<SQLQuery("STMT2")>>)>>),
     SQLCreateTable(<<"t">>, <<>>, <<>>, <<>>, TRUE, None, None)}

TransactionStmts ==
    {SQLTransaction(stmts) : stmts \in SeqsUpTo(TransactionChildren, MaxStmts)}

Statements ==
    CopyStmts \cup CreateViewStmts \cup CreateTableStmts \cup OtherStmts
    \cup TransactionStmts

FrameUnitsKeywords == {"ROWS", "RANGE", "GROUPS"}

FileFormatKeywords ==
    {"TEXTFILE", "SEQUENCEFILE", "ORC", "PARQUET", "AVRO", "RCFILE", "JSONFILE"}

\* Keywords, other-case spellings, prefixes, extensions, padded and unrelated words.
Tokens ==
    FrameUnitsKeywords \cup FileFormatKeywords
    \cup {"rows", "Rows", "range", "groups", "ROW", "ROWSS", " ROWS", "ROWS ", "RANG",
          "textfile", "Parquet", "orc", "OR", "ORCS", " ORC", "AVRO ", "JSON", "CSV",
          "", " ", "ROWS, RANGE, or GROUPS"}

UnitsTokens == {[type |-> "SQLWindowFrameUnitsToken", s |-> s] : s \in Tokens}

FormatTokens == {[type |-> "FileFormatToken", s |-> s] : s \in Tokens}

\* Values of the two small enumerations, to be rendered and parsed back.
UnitsValues == {[type |-> "SQLWindowFrameUnits", variant |-> u] : u \in SQLWindowFrameUnits}

FormatValues == {[type |-> "FileFormat", variant |-> f] : f \in FileFormat}

Inputs ==
    ASTNodes \cup WindowSpecs \cup Statements \cup UnitsTokens \cup FormatTokens
    \cup UnitsValues \cup FormatValues

NoOutput == [kind |-> "none", value |-> "", text |-> ""]

(***************************************************************************)
(* The state machine: a caller holds one tree or token and applies the     *)
(* operation that is defined for it.                                       *)
(***************************************************************************)
Init ==
    /\ input \in Inputs
    /\ out = NoOutput
    /\ pc = "built"
    /\ trees = <<>>
    /\ calls = <<>>

ASTNode_to_string ==
    /\ pc = "built"
    /\ input.type \in ASTNodeTypes
    /\ out' = Rendered(ASTNodeToString(input))
    /\ pc' = "done"
    /\ UNCHANGED <<input, trees, calls>>

SQLWindowSpec_to_string ==
    /\ pc = "built"
    /\ input.type = "SQLWindowSpec"
    /\ out' = Rendered(SQLWindowSpecToString(input))
    /\ pc' = "done"
    /\ UNCHANGED <<input, trees, calls>>

SQLStatement_to_string ==
    /\ pc = "built"
    /\ input.type \in SQLStatementTypes
    /\ out' = SQLStatementToString(input)
    /\ pc' = "done"
    /\ UNCHANGED <<input, trees, calls>>

SQLWindowFrameUnits_from_str ==
    /\ pc = "built"
    /\ input.type = "SQLWindowFrameUnitsToken"
    /\ out' = SQLWindowFrameUnitsFromStr(input.s)
    /\ pc' = "done"
    /\ UNCHANGED <<input, trees, calls>>

FileFormat_from_str ==
    /\ pc = "built"
    /\ input.type = "FileFormatToken"
    /\ out' = FileFormatFromStr(input.s)
    /\ pc' = "done"
    /\ UNCHANGED <<input, trees, calls>>

SQLWindowFrameUnits_to_string ==
    /\ pc = "built"
    /\ input.type = "SQLWindowFrameUnits"
    /\ out' = Rendered(SQLWindowFrameUnitsToString(input.variant))
    /\ pc' = "done"
    /\ UNCHANGED <<input, trees, calls>>

FileFormat_to_string ==
    /\ pc = "built"
    /\ input.type = "FileFormat"
    /\ out' = Rendered(FileFormatToString(input.variant))
    /\ pc' = "done"
    /\ UNCHANGED <<input, trees, calls>>

\* from_str applied to the keyword that to_string has just produced.
SQLWindowFrameUnits_from_str_rendered ==
    /\ pc = "done"
    /\ input.type = "SQLWindowFrameUnits"
    /\ out' = SQLWindowFrameUnitsFromStr(out.text)
    /\ pc' = "parsed"
    /\ UNCHANGED <<input, trees, calls>>

FileFormat_from_str_rendered ==
    /\ pc = "done"
    /\ input.type = "FileFormat"
    /\ out' = FileFormatFromStr(out.text)
    /\ pc' = "parsed"
    /\ UNCHANGED <<input, trees, calls>>

Next ==
    \/ SQLWindowFrameUnits_to_string
    \/ FileFormat_to_string
    \/ SQLWindowFrameUnits_from_str_rendered
    \/ FileFormat_from_str_rendered
    \/ ASTNode_to_string
    \/ SQLWindowSpec_to_string
    \/ SQLStatement_to_string
    \/ SQLWindowFrameUnits_from_str
    \/ FileFormat_from_str

Spec == Init /\ [][Next]_vars

TypeOK ==
    /\ input \in Inputs
    /\ pc \in {"built", "done", "parsed"}
    /\ out.kind \in {"none", "text", "panic", "ok", "err"}
    /\ pc = "built" <=> out = NoOutput

(***************************************************************************)
(* Helpers of the properties.  They read the rendered text back            *)
(* independently of the renderer's own join.                               *)
(***************************************************************************)
Done(t) == pc = "done" /\ input.type = t

\* The items of a sequence of texts, in order, with sep between neighbours.
RECURSIVE SepBy(_, _)
SepBy(items, sep) ==
    IF Len(items) = 0 THEN ""
    ELSE IF Len(items) = 1 THEN items[1]
    ELSE SepBy(SubSeq(items, 1, Len(items) - 1), sep) \o sep \o items[Len(items)]

\* The fields of a text cut at every occurrence of the one-character text ch.
RECURSIVE Split(_, _)
Split(s, ch) ==
    IF \A i \in 1..Len(s) : SubSeq(s, i, i) # ch THEN <<s>>
    ELSE LET i == CHOOSE k \in 1..Len(s) :
                    /\ SubSeq(s, k, k) = ch
                    /\ \A j \in 1..(k - 1) : SubSeq(s, j, j) # ch
         IN <<SubSeq(s, 1, i - 1)>> \o Split(SubSeq(s, i + 1, Len(s)), ch)

\* Cut a sequence into consecutive rows of k items each.
Rows(values, k) ==
    [r \in 1..(Len(values) \div k) |-> SubSeq(values, (r - 1) * k + 1, r * k)]

CopyField(v) == IF v = None THEN "\\N" ELSE v[1]

CopyFields(values) == [i \in 1..Len(values) |-> CopyField(values[i])]

(***************************************************************************)
(* C1.  A CASE expression whose number of WHEN-conditions differs from its *)
(* number of THEN-results is rejected: no rendered text is ever produced   *)
(* for it, and in particular it is never rendered with the surplus         *)
(* conditions or results dropped.                                          *)
(* The code has no constructor that checks the counts and zip() drops the  *)
(* surplus, so this statement is violated.                                 *)
(***************************************************************************)
C1_MismatchedCaseIsNeverRendered ==
    (Done("SQLCase") /\ Len(input.conditions) # Len(input.results))
        => out.kind # "text"

(***************************************************************************)
(* C2.  Rendering a create-table statement never faults: for every         *)
(* create-table node that can be constructed, rendering returns text.      *)
(* A node with external = true and no file format or no location can be    *)
(* constructed and its rendering panics, so this statement is violated.    *)
(***************************************************************************)
C2_CreateTableRenderingReturnsText ==
    Done("SQLCreateTable") => out.kind = "text"

(***************************************************************************)
(* C3.  Rendering a copy statement that carries several data rows puts     *)
(* each row on its own line: values inside a row are joined by a tab and   *)
(* successive rows are separated by a newline; the copy of t (a, b) with   *)
(* rows (1, null) and (2, 3) renders as                                    *)
(* "COPY t (a, b) FROM stdin; \n1\t\\N\n2\t3\n\\.".                        *)
(* The code keeps one flat value list and joins all of it with tabs, so    *)
(* this statement is violated as soon as there are two rows.               *)
(***************************************************************************)
C3_CopyRowsOnOwnLines ==
    (Done("SQLCopy") /\ Len(input.columns) > 0 /\ Len(input.values) > 0
        /\ Len(input.values) % Len(input.columns) = 0)
    => LET rows == Rows(input.values, Len(input.columns))
           lines == [r \in 1..Len(rows) |-> SepBy(CopyFields(rows[r]), TAB)]
       IN /\ out.kind = "text"
          /\ out.text = "COPY t (" \o SepBy(input.columns, ", ") \o ") FROM stdin; "
                        \o NL \o SepBy(lines, NL) \o NL \o "\\."
          /\ (input.columns = <<"a", "b">>
              /\ input.values = <<Some("1"), None, Some("2"), Some("3")>>)
             => out.text = "COPY t (a, b) FROM stdin; \n1\t\\N\n2\t3\n\\."

(***************************************************************************)
(* C4.  Rendering a copy statement with an empty value list and no columns *)
(* yields exactly "COPY t FROM stdin; " + newline + "\." with no row-data  *)
(* line; with a non-empty value list every absent value renders as the     *)
(* two-character token \N, every present value renders as its own text     *)
(* unchanged, the values are joined by single tabs, and the text always    *)
(* ends with newline + "\.".                                               *)
(***************************************************************************)
C4_CopyValuesRendering ==
    Done("SQLCopy") =>
        /\ out.kind = "text"
        /\ EndsWith(out.text, NL \o "\\.")
        /\ (input.values = <<>> /\ input.columns = <<>>)
              => out.text = "COPY t FROM stdin; \n\\."
        /\ input.values = <<>> => Len(Split(out.text, NL)) = 2
        /\ input.values # <<>> =>
              LET lines == Split(out.text, NL)
              IN /\ Len(lines) = 3
                 /\ EndsWith(lines[1], " FROM stdin; ")
                 /\ Split(lines[2], TAB) = CopyFields(input.values)
                 /\ lines[3] = "\\."

C4_Witness ==
    /\ Done("SQLCopy")
    /\ Len(input.values) >= 3
    /\ \E i \in 1..Len(input.values) : input.values[i] = None
    /\ \E i \in 1..Len(input.values) : input.values[i] # None
    /\ out.kind = "text"

(***************************************************************************)
(* C5.  For both enumeration parsers, every input string that matches no   *)
(* accepted keyword yields a parser error whose message carries both the   *)
(* offending input string and the set of accepted keywords.                *)
(* The file-format parser's message names the input only, so this          *)
(* statement is violated.                                                  *)
(***************************************************************************)
C5_ParseErrorCarriesInputAndKeywords ==
    /\ (Done("SQLWindowFrameUnitsToken") /\ input.s \notin FrameUnitsKeywords)
          => /\ out.kind = "err"
             /\ EndsWith(out.text, input.s)
             /\ \A k \in FrameUnitsKeywords : Contains(out.text, k)
    /\ (Done("FileFormatToken") /\ input.s \notin FileFormatKeywords)
          => /\ out.kind = "err"
             /\ EndsWith(out.text, input.s)
             /\ \A k \in FileFormatKeywords : Contains(out.text, k)

(***************************************************************************)
(* C6.  The enumeration parsers accept exactly the upper-case keyword      *)
(* spellings and nothing else: "ROWS", "RANGE", "GROUPS" give Rows, Range, *)
(* Groups; "TEXTFILE", "SEQUENCEFILE", "ORC", "PARQUET", "AVRO", "RCFILE", *)
(* "JSONFILE" give the variant of the same name; every other string (other *)
(* case, a prefix, surrounding whitespace) gives an error and no value.    *)
(***************************************************************************)
C6_ParsersAcceptExactKeywords ==
    /\ Done("SQLWindowFrameUnitsToken") =>
          /\ input.s = "ROWS" => out = [kind |-> "ok", value |-> "Rows", text |-> ""]
          /\ input.s = "RANGE" => out = [kind |-> "ok", value |-> "Range", text |-> ""]
          /\ input.s = "GROUPS" => out = [kind |-> "ok", value |-> "Groups", text |-> ""]
          /\ input.s \notin {"ROWS", "RANGE", "GROUPS"}
                => out.kind = "err" /\ out.value = ""
    /\ Done("FileFormatToken") =>
          /\ input.s \in FileFormatKeywords
                => out = [kind |-> "ok", value |-> input.s, text |-> ""]
          /\ input.s \notin FileFormatKeywords
                => out.kind = "err" /\ out.value = ""

C6_Witness ==
    /\ pc = "done"
    /\ \/ input.type = "SQLWindowFrameUnitsToken" /\ input.s = "rows"
       \/ input.type = "FileFormatToken" /\ input.s = " ORC"
    /\ out.kind = "err"

(***************************************************************************)
(* The list-valued clauses of a node, for C7.  Each clause names its items *)
(* (already rendered one by one), the punctuation that surrounds them, a   *)
(* keyword that belongs to the clause alone (or ""), the text of the same  *)
(* node with that list emptied, and whether the code renders the clause    *)
(* only for a non-empty list (optional) or always.                         *)
(***************************************************************************)
TextOf(node) ==
    IF node.type = "SQLWindowSpec" THEN SQLWindowSpecToString(node)
    ELSE IF node.type \in ASTNodeTypes THEN ASTNodeToString(node)
    ELSE SQLStatementToString(node).text

OptionTexts(l) == [i \in 1..Len(l) |-> l[i].name \o " = " \o l[i].value.text]

NodeTexts(l) == [i \in 1..Len(l) |-> ASTNodeToString(l[i])]

ExternTexts(l) == [i \in 1..Len(l) |-> l[i].text]

Clause(items, open, close, kw, base, optional) ==
    [items |-> items, open |-> open, close |-> close, kw |-> kw, base |-> base,
     optional |-> optional]

Clauses(node) ==
    CASE node.type = "SQLInsert" ->
            {Clause(node.columns, "(", ") ", "(",
                    TextOf([node EXCEPT !.columns = <<>>]), TRUE)}
      [] node.type = "SQLCopy" ->
            {Clause(node.columns, " (", ")", "(",
                    TextOf([node EXCEPT !.columns = <<>>]), TRUE)}
      [] node.type = "SQLUpdate" ->
            {Clause([i \in 1..Len(node.assignments) |->
                        node.assignments[i].id \o " = "
                        \o ASTNodeToString(node.assignments[i].value)],
                    " SET ", "", "SET",
                    TextOf([node EXCEPT !.assignments = <<>>]), TRUE)}
      [] node.type = "SQLCreateView" ->
            {Clause(node.columns, " (", ")", "",
                    TextOf([node EXCEPT !.columns = <<>>]), TRUE),
             Clause(OptionTexts(node.with_options), " WITH (", ")", "WITH",
                    TextOf([node EXCEPT !.with_options = <<>>]), TRUE)}
      [] node.type = "SQLCreateTable" ->
            {Clause([i \in 1..Len(node.columns) |-> SQLColumnDefToString(node.columns[i])],
                    "", "", "",
                    TextOf([node EXCEPT !.columns = <<>>]), FALSE),
             Clause(ExternTexts(node.constraints), ", ", "", "",
                    TextOf([node EXCEPT !.constraints = <<>>]), TRUE),
             Clause(OptionTexts(node.with_options), " WITH (", ")", "WITH",
                    TextOf([node EXCEPT !.with_options = <<>>]), TRUE)}
      [] node.type = "SQLDrop" ->
            {Clause([i \in 1..Len(node.names) |-> SepBy(node.names[i], ".")],
                    "", "", "",
                    TextOf([node EXCEPT !.names = <<>>]), FALSE)}
      [] node.type = "SQLInList" ->
            {Clause(NodeTexts(node.list), "", "", "",
                    TextOf([node EXCEPT !.list = <<>>]), FALSE)}
      [] node.type = "SQLFunction" ->
            {Clause(NodeTexts(node.f.args), "", "", "",
                    TextOf([node EXCEPT !.f.args = <<>>]), FALSE)}
      [] node.type = "SQLWindowSpec" ->
            {Clause(NodeTexts(node.partition_by), "PARTITION BY ", "", "PARTITION BY",
                    TextOf([node EXCEPT !.partition_by = <<>>]), TRUE),
             Clause(ExternTexts(node.order_by), "ORDER BY ", "", "ORDER BY",
                    TextOf([node EXCEPT !.order_by = <<>>]), TRUE)}
      [] OTHER -> {}

\* Traces an omitted clause could leave behind.
NoStray(text) ==
    /\ \A p \in {"()", "(, ", ", )", " )", "( ", "  ", ", ,"} : ~Contains(text, p)
    /\ ~StartsWith(text, " ")
    /\ ~EndsWith(text, " ")
    /\ ~EndsWith(text, ", ")

\* A non-empty list: the items in order, joined by ", ", inside the clause's
\* punctuation, and nothing else differs from the text without the list.
\* The clauses of a window specification are themselves joined by one space.
ItemsRendered(node, text, c) ==
    LET clause == c.open \o SepBy(c.items, ", ") \o c.close
    IN IF node.type = "SQLWindowSpec"
       THEN IF c.base = "" THEN text = clause
            ELSE \/ InsertedInto(text, c.base, clause \o " ")
                 \/ InsertedInto(text, c.base, " " \o clause)
       ELSE InsertedInto(text, c.base, clause)

ClauseOmitted(text, c) ==
    /\ c.kw # "" => ~Contains(text, c.kw)
    /\ NoStray(text)

\* The nodes that carry the lists C7 names: column, option, constraint,
\* partition-by and order-by lists.
ListedClauseNodes ==
    {"SQLInsert", "SQLCopy", "SQLCreateView", "SQLCreateTable", "SQLWindowSpec"}

Rendering == pc = "done" /\ out.kind = "text" /\ Clauses(input) # {}

(***************************************************************************)
(* C7 as stated.  For every list-valued clause of every rendered node, an  *)
(* empty list makes the rendered text omit the clause's keywords and       *)
(* punctuation entirely, leaving no stray separator, space or empty        *)
(* parentheses; a non-empty list renders its items in order joined by ", " *)
(* with no trailing separator.                                             *)
(* Violated: the column-definition list of create-table is always          *)
(* parenthesised, so an empty one renders "()".                            *)
(***************************************************************************)
C7_EveryEmptyListOmitsItsClause ==
    (Rendering /\ input.type \in ListedClauseNodes) =>
        \A c \in Clauses(input) :
            IF c.items = <<>> THEN ClauseOmitted(out.text, c)
            ELSE ItemsRendered(input, out.text, c)

(***************************************************************************)
(* C7 as amended.  For the clauses the code renders only when their list   *)
(* is non-empty (the column lists of insert, copy and create-view, the     *)
(* option lists of create-view and create-table, the constraint list of    *)
(* create-table, the assignment list of update, the partition-by and       *)
(* order-by lists of a window specification) an empty list leaves no       *)
(* keyword, separator, space or empty parentheses of that clause.  The     *)
(* lists the code renders unconditionally (the column definitions of       *)
(* create-table, the names of drop, the items of IN, the arguments of a    *)
(* function) keep their surrounding punctuation when empty, which shows as *)
(* "()", "(, ", " )" or a stray space.  Every non-empty list renders its   *)
(* items in order joined by ", " with no trailing separator.               *)
(***************************************************************************)
C7_ListClauses ==
    Rendering =>
        LET always == {c \in Clauses(input) : ~c.optional}
        IN \A c \in Clauses(input) :
              IF c.items # <<>> THEN ItemsRendered(input, out.text, c)
              ELSE IF c.optional
                   THEN /\ c.kw # "" => ~Contains(out.text, c.kw)
                        /\ (\A d \in always : d.items # <<>>) => NoStray(out.text)
                   ELSE ~NoStray(out.text)

C7_Witness ==
    /\ Done("SQLCreateView")
    /\ input.with_options = <<>>
    /\ Len(input.columns) = 2
    /\ out.text = "CREATE VIEW v (a, b) AS SELECT 1"

(***************************************************************************)
(* C8.  Rendering a CASE expression with equally many conditions and       *)
(* results yields "CASE", then " <operand>" only if an operand is present, *)
(* then one " WHEN <cond> THEN <result>" per pair in list order, then      *)
(* " ELSE <result>" only if an else result is present, then " END";        *)
(* removing the operand or the else result removes exactly those tokens    *)
(* and changes nothing else in the text.                                   *)
(***************************************************************************)
CaseTokens(node) ==
    LET pair(i) == <<"WHEN", ASTNodeToString(node.conditions[i]),
                     "THEN", ASTNodeToString(node.results[i])>>
        pairs[i \in 0..Len(node.conditions)] ==
            IF i = 0 THEN <<>> ELSE pairs[i - 1] \o pair(i)
    IN <<"CASE">>
       \o (IF node.operand = None THEN <<>> ELSE <<ASTNodeToString(node.operand[1])>>)
       \o pairs[Len(node.conditions)]
       \o (IF node.else_result = None THEN <<>>
           ELSE <<"ELSE", ASTNodeToString(node.else_result[1])>>)
       \o <<"END">>

C8_CaseRendering ==
    (Done("SQLCase") /\ Len(input.conditions) = Len(input.results)) =>
        /\ out.kind = "text"
        /\ out.text = SepBy(CaseTokens(input), " ")
        /\ input.operand # None =>
              LET base == ASTNodeToString([input EXCEPT !.operand = None])
                  gone == " " \o ASTNodeToString(input.operand[1])
              IN out.text = SubSeq(base, 1, 4) \o gone \o SubSeq(base, 5, Len(base))
        /\ input.else_result # None =>
              LET base == ASTNodeToString([input EXCEPT !.else_result = None])
                  gone == " ELSE " \o ASTNodeToString(input.else_result[1])
              IN out.text = SubSeq(base, 1, Len(base) - 4) \o gone \o " END"

C8_Witness ==
    /\ Done("SQLCase")
    /\ Len(input.conditions) = 2
    /\ Len(input.results) = 2
    /\ input.conditions[1] # input.conditions[2]
    /\ input.results[1] # input.results[2]
    /\ input.operand # None
    /\ input.else_result # None
    /\ out.kind = "text"

(***************************************************************************)
(* C9.  Rendering a transaction yields "BEGIN;", a newline, the rendered   *)
(* statements in list order separated by single newlines, a newline, and   *)
(* "COMMIT;"; for the empty statement list the result is exactly           *)
(* "BEGIN;" + newline + newline + "COMMIT;", and nested transactions       *)
(* render recursively by the same rule.                                    *)
(***************************************************************************)
\* The texts of the statements of a transaction, found in its rendering at
\* consecutive offsets after "BEGIN;\n", one newline between neighbours.
RECURSIVE LaidOut(_, _, _)
LaidOut(text, at, parts) ==
    IF parts = <<>> THEN at = Len(text) + 1
    ELSE /\ SubSeq(text, at, at + Len(parts[1]) - 1) = parts[1]
         /\ IF Len(parts) = 1 THEN at + Len(parts[1]) = Len(text) + 1
            ELSE /\ SubSeq(text, at + Len(parts[1]), at + Len(parts[1])) = NL
                 /\ LaidOut(text, at + Len(parts[1]) + 1, Tail(parts))

RECURSIVE TransactionRule(_, _)
TransactionRule(stmt, text) ==
    LET parts == [i \in 1..Len(stmt.stmts) |-> SQLStatementToString(stmt.stmts[i]).text]
        body == SubSeq(text, 8, Len(text) - 8)
    IN /\ StartsWith(text, "BEGIN;" \o NL)
       /\ EndsWith(text, NL \o "COMMIT;")
       /\ Len(text) >= 15
       /\ LaidOut(body, 1, parts)
       /\ stmt.stmts = <<>> => text = "BEGIN;\n\nCOMMIT;"
       /\ \A i \in 1..Len(stmt.stmts) :
             stmt.stmts[i].type = "SQLTransaction"
                => TransactionRule(stmt.stmts[i], parts[i])

C9_TransactionRendering ==
    (Done("SQLTransaction") /\ out.kind = "text") => TransactionRule(input, out.text)

C9_Witness ==
    /\ Done("SQLTransaction")
    /\ Len(input.stmts) = 2
    /\ input.stmts[1] = SQLQuery("STMT1")
    /\ input.stmts[2].type = "SQLTransaction"
    /\ input.stmts[2].stmts # <<>>
    /\ out.kind = "text"

(***************************************************************************)
(* C10.  Rendering a create-view statement yields "CREATE", " MATERIALIZED"*)
(* only when the materialized flag is set, " VIEW <name>", then            *)
(* " WITH (<options>)" only when the option list is non-empty, then        *)
(* " (<cols>)" only when the column list is non-empty, then " AS <query>"; *)
(* for all four combinations of present/absent options and columns the     *)
(* options clause comes before the column clause and an absent clause      *)
(* leaves no extra space.                                                  *)
(***************************************************************************)
CreateViewTokens(stmt) ==
    <<"CREATE">>
    \o (IF stmt.materialized THEN <<"MATERIALIZED">> ELSE <<>>)
    \o <<"VIEW", SepBy(stmt.name, ".")>>
    \o (IF stmt.with_options # <<>>
        THEN <<"WITH", "(" \o SepBy(OptionTexts(stmt.with_options), ", ") \o ")">>
        ELSE <<>>)
    \o (IF stmt.columns # <<>>
        THEN <<"(" \o SepBy(stmt.columns, ", ") \o ")">>
        ELSE <<>>)
    \o <<"AS", stmt.query.text>>

C10_CreateViewRendering ==
    Done("SQLCreateView") =>
        /\ out.kind = "text"
        /\ out.text = SepBy(CreateViewTokens(input), " ")
        /\ ~Contains(out.text, "  ")
        /\ Contains(out.text, " MATERIALIZED") <=> input.materialized

C10_Witness ==
    /\ Done("SQLCreateView")
    /\ input.materialized
    /\ Len(input.with_options) = 2
    /\ Len(input.columns) = 2
    /\ out.text = "CREATE MATERIALIZED VIEW v WITH (k = 'v', n = 1) (a, b) AS SELECT 1"

(***************************************************************************)
(* C11.  Rendering a window specification emits, in this order and joined  *)
(* by single spaces, "PARTITION BY <list>" only when the partition list is *)
(* non-empty, "ORDER BY <list>" only when the order list is non-empty, and *)
(* a frame only when one is present; the frame renders as                  *)
(* "<units> BETWEEN <start> AND <end>" exactly when an end bound exists    *)
(* and as "<units> <start>" otherwise, and a specification with all three  *)
(* parts absent renders as the empty string.                               *)
(***************************************************************************)
UnitsKeyword(u) ==
    IF u = "Rows" THEN "ROWS" ELSE IF u = "Range" THEN "RANGE" ELSE "GROUPS"

BoundText(b) ==
    IF b.type = "CurrentRow" THEN "CURRENT ROW"
    ELSE (IF b.n = None THEN "UNBOUNDED" ELSE ToString(b.n[1]))
         \o (IF b.type = "Preceding" THEN " PRECEDING" ELSE " FOLLOWING")

FrameText(f) ==
    IF f.end_bound # None
    THEN UnitsKeyword(f.units) \o " BETWEEN " \o BoundText(f.start_bound)
         \o " AND " \o BoundText(f.end_bound[1])
    ELSE UnitsKeyword(f.units) \o " " \o BoundText(f.start_bound)

WindowSpecParts(spec) ==
    (IF spec.partition_by # <<>>
     THEN <<"PARTITION BY " \o SepBy(NodeTexts(spec.partition_by), ", ")>> ELSE <<>>)
    \o (IF spec.order_by # <<>>
        THEN <<"ORDER BY " \o SepBy(ExternTexts(spec.order_by), ", ")>> ELSE <<>>)
    \o (IF spec.window_frame # None THEN <<FrameText(spec.window_frame[1])>> ELSE <<>>)

C11_WindowSpecRendering ==
    Done("SQLWindowSpec") =>
        /\ out.kind = "text"
        /\ out.text = SepBy(WindowSpecParts(input), " ")
        /\ Contains(out.text, "PARTITION BY") <=> input.partition_by # <<>>
        /\ Contains(out.text, "ORDER BY") <=> input.order_by # <<>>
        /\ Contains(out.text, " BETWEEN ") <=>
              (input.window_frame # None /\ input.window_frame[1].end_bound # None)
        /\ (input.partition_by = <<>> /\ input.order_by = <<>>
            /\ input.window_frame = None) => out.text = ""
        /\ NoStray(out.text)

C11_Witness ==
    /\ Done("SQLWindowSpec")
    /\ input.partition_by = <<>>
    /\ Len(input.order_by) = 2
    /\ input.window_frame # None
    /\ input.window_frame[1].end_bound = None
    /\ out.text = "ORDER BY x, y DESC RANGE 5 PRECEDING"

(***************************************************************************)
(* Concurrent rendering.  to_string takes &self: several threads hold      *)
(* shared references to the same vector of trees and each call walks its   *)
(* tree on its own stack.  A call on a transaction is a loop over the      *)
(* statement list (stmts.iter().map(|s| s.to_string())) followed by the    *)
(* join; every step of the loop reads the shared tree again, and steps of  *)
(* different calls interleave freely.                                      *)
(***************************************************************************)
MaxThreads == 2

Threads == 1..MaxThreads

SharedTrees ==
    {SQLTransaction(<<SQLQuery("STMT1"), SQLQuery("STMT2")>>),
     SQLTransaction(<<SQLDelete(<<"t">>, None),
                      SQLTransaction(<<SQLQuery("STMT1")>>)>>),
     SQLTransaction(<<SQLQuery("STMT1"),
                      SQLCreateTable(<<"t">>, <<>>, <<>>, <<>>, TRUE, None, None)>>),
     SQLTransaction(<<>>),
     SQLCopy(<<"t">>, <<"a">>, <<Some("1"), None>>),
     SQLCase(Some(SQLIdentifier("o")), <<SQLIdentifier("c1")>>,
             <<SQLIdentifier("r1")>>, None)}

\* The result of one call that runs with no other call in progress.
RenderAlone(tree) ==
    IF tree.type \in ASTNodeTypes THEN Rendered(ASTNodeToString(tree))
    ELSE SQLStatementToString(tree)

IdleCall == [pc |-> "idle", tree |-> 0, i |-> 0, parts |-> <<>>, result |-> NoOutput]

InitConcurrent ==
    /\ trees \in [1..2 -> SharedTrees]
    /\ calls = [th \in Threads |-> IdleCall]
    /\ input = [type |-> "Shared"]
    /\ out = NoOutput
    /\ pc = "shared"

\* A thread calls to_string on one of the shared trees.
to_string_call(th) ==
    /\ calls[th].pc = "idle"
    /\ \E t \in DOMAIN trees :
          calls' = [calls EXCEPT ![th] =
                      [pc |-> "running", tree |-> t, i |-> 1, parts |-> <<>>,
                       result |-> NoOutput]]
    /\ UNCHANGED <<trees, input, out, pc>>

\* Every variant but SQLTransaction: the match arm builds the text.
to_string_whole(th) ==
    /\ calls[th].pc = "running"
    /\ trees[calls[th].tree].type # "SQLTransaction"
    /\ calls' = [calls EXCEPT ![th].pc = "done",
                              ![th].result = RenderAlone(trees[calls[th].tree])]
    /\ UNCHANGED <<trees, input, out, pc>>

\* A loop step that takes the statement out of the shared list as it renders it.
to_string_map_next_Draining(th) ==
    /\ calls[th].pc = "running"
    /\ trees[calls[th].tree].type = "SQLTransaction"
    /\ calls[th].i <= Len(trees[calls[th].tree].stmts)
    /\ LET r == SQLStatementToString(trees[calls[th].tree].stmts[1])
       IN calls' = [calls EXCEPT ![th].parts = Append(@, r.text)]
    /\ trees' = [trees EXCEPT ![calls[th].tree].stmts = Tail(@)]
    /\ UNCHANGED <<input, out, pc>>

\* SQLTransaction: one step of stmts.iter().map(|s| s.to_string()); a panic
\* in the statement's own rendering unwinds the call.
to_string_map_next(th) ==
    /\ calls[th].pc = "running"
    /\ trees[calls[th].tree].type = "SQLTransaction"
    /\ calls[th].i <= Len(trees[calls[th].tree].stmts)
    /\ LET r == SQLStatementToString(trees[calls[th].tree].stmts[calls[th].i])
       IN calls' = IF r.kind = "panic"
                   THEN [calls EXCEPT ![th].pc = "done", ![th].result = Panicked]
                   ELSE [calls EXCEPT ![th].parts = Append(@, r.text),
                                      ![th].i = @ + 1]
    /\ UNCHANGED <<trees, input, out, pc>>

\* SQLTransaction: .collect::<Vec<String>>().join("\n") inside format!.
to_string_join(th) ==
    /\ calls[th].pc = "running"
    /\ trees[calls[th].tree].type = "SQLTransaction"
    /\ calls[th].i > Len(trees[calls[th].tree].stmts)
    /\ calls' = [calls EXCEPT
                    ![th].pc = "done",
                    ![th].result = Rendered("BEGIN;\n" \o join(calls[th].parts, "\n")
                                            \o "\nCOMMIT;")]
    /\ UNCHANGED <<trees, input, out, pc>>

\* The caller takes the returned String; the thread may call again.
to_string_return(th) ==
    /\ calls[th].pc = "done"
    /\ calls' = [calls EXCEPT ![th] = IdleCall]
    /\ UNCHANGED <<trees, input, out, pc>>

NextConcurrent ==
    \E th \in Threads :
        \/ to_string_call(th)
        \/ to_string_whole(th)
        \/ to_string_map_next(th)
        \/ to_string_join(th)
        \/ to_string_return(th)

SpecConcurrent == InitConcurrent /\ [][NextConcurrent]_vars

(***************************************************************************)
(* C12.  Rendering is read-only and deterministic under concurrency: for   *)
(* any interleaving of several render calls on the same tree or on         *)
(* distinct trees, no node of any tree is changed by a render, and each    *)
(* call returns the same text that a render of that tree run alone         *)
(* returns.                                                                *)
(***************************************************************************)
C12_ConcurrentRendering ==
    /\ [][trees' = trees]_vars
    /\ [](\A th \in DOMAIN calls :
            calls[th].pc = "done"
               => calls[th].result = RenderAlone(trees[calls[th].tree]))

\* One call has returned a transaction's text while another call on the same
\* tree is in the middle of its loop.
C12_Witness ==
    /\ DOMAIN calls # {}
    /\ calls[1].pc = "done"
    /\ calls[1].result.kind = "text"
    /\ calls[2].pc = "running"
    /\ calls[2].tree = calls[1].tree
    /\ calls[2].i = 2
    /\ Len(trees[calls[1].tree].stmts) = 2
    /\ trees[1] # trees[2]

(***************************************************************************)
(* C13.  Rendering then parsing a small enumeration is the identity: for   *)
(* every file-format variant f, parsing the text rendered for f returns f, *)
(* and for every window-frame unit u, parsing the text rendered for u      *)
(* returns u; equivalently, distinct variants never render to the same     *)
(* keyword.                                                                *)
(* FileFormat::to_string renders JSONFILE as "TEXTFILE", which parses back *)
(* to TEXTFILE, so this statement is violated.                             *)
(***************************************************************************)
C13_RenderThenParseIsIdentity ==
    (pc = "parsed" /\ input.type \in {"FileFormat", "SQLWindowFrameUnits"})
        => out = [kind |-> "ok", value |-> input.variant, text |-> ""]

====
